---- MODULE Spec2Model ----
(***************************************************************************)
(* Person / User / Staff of keanus_candy/models/newperson.py as a state    *)
(* machine.  One Staff object (a Staff is a User is a Person) is operated  *)
(* by a single-threaded caller; every method is one action.                *)
(*                                                                         *)
(* Python values:                                                          *)
(*   - a str is a sequence of one-character strings;                       *)
(*   - a list or a ShoppingCart is an object on a heap, named by its       *)
(*     reference (a positive integer); the reference 0 is None;            *)
(*   - a float amount of money is a whole number of cents.                 *)
(* The variable call records the operation that produced the state, its    *)
(* arguments and its outcome (a returned value or a raised exception).     *)
(***************************************************************************)
EXTENDS Integers, Sequences, FiniteSets, TLC

VARIABLES person_id, name, email, _password, _orders, _cart, email_verified,
          position, lists, carts, quantity, next_order, returned, call,
          add_to_cart_called, checkouts_returned, accepted_password

vars ==
  <<person_id, name, email, _password, _orders, _cart, email_verified,
    position, lists, carts, quantity, next_order, returned, call,
    add_to_cart_called, checkouts_returned, accepted_password>>

\* History of the calls, kept for the properties: whether add_to_cart was ever
\* called, how many checkout calls returned an order, and the password the
\* constructor or the last change_password call that returned True was given.
history ==
  <<add_to_cart_called, checkouts_returned, accepted_password>>

\* The fields of the object, and the heap objects it owns or was handed.
fields ==
  <<person_id, name, email, _password, _orders, _cart, email_verified,
    position, lists, carts, quantity, next_order>>

----------------------------------------------------------------------------
(* Bounds *)

MaxOrders == 2
MaxCartQty == 1
MaxReportLen == 2
MaxEmailLen == 4
MaxNameLen == 2

----------------------------------------------------------------------------
(* Python values *)

NoneRef == 0

None == "None"

Return(v) ==
  [kind |-> "return", value |-> v]

Raise(exc, msg) ==
  [kind |-> "raise", exc |-> exc, msg |-> msg]

PyInt(n) ==
  [type |-> "int", val |-> n]

PyBool(b) ==
  [type |-> "bool", val |-> IF b THEN 1 ELSE 0]

PyFloat ==
  [type |-> "float", val |-> 1]

PyNone ==
  [type |-> "NoneType", val |-> 0]

PyStr(s) ==
  [type |-> "str", val |-> s]

\* format(v, ""), of a str or of None
format_str(v) ==
  IF v.type = "str" THEN v.val ELSE <<"N", "o", "n", "e">>

\* isinstance(v, int): bool is a subclass of int.
isinstance_int(v) ==
  v.type \in {"int", "bool"}

isinstance_str(v) ==
  v.type = "str"

Whitespace == {" ", "\t"}

RECURSIVE lstrip(_)
lstrip(s) ==
  IF s # <<>> /\ Head(s) \in Whitespace THEN lstrip(Tail(s)) ELSE s

RECURSIVE rstrip(_)
rstrip(s) ==
  IF s # <<>> /\ s[Len(s)] \in Whitespace
  THEN rstrip(SubSeq(s, 1, Len(s) - 1))
  ELSE s

\* str.strip()
strip(s) ==
  rstrip(lstrip(s))

\* sub in s, for a one-character sub
contains(s, ch) ==
  \E i \in 1..Len(s) : s[i] = ch

\* s.split(sep): the parts between the occurrences of sep, left to right
RECURSIVE split_from(_, _, _, _)
split_from(s, sep, parts, cur) ==
  IF s = <<>> THEN Append(parts, cur)
  ELSE IF Head(s) = sep THEN split_from(Tail(s), sep, Append(parts, cur), <<>>)
  ELSE split_from(Tail(s), sep, parts, Append(cur, Head(s)))

split(s, sep) ==
  split_from(s, sep, <<>>, <<>>)

\* parts[-1]
last(parts) ==
  parts[Len(parts)]

\* a string of n copies of ch
RECURSIVE Rep(_, _)
Rep(ch, n) ==
  IF n = 0 THEN <<>> ELSE <<ch>> \o Rep(ch, n - 1)

----------------------------------------------------------------------------
(* Collaborators: Candy, PaymentMethod, Order, ShoppingCart *)

Candy == {"gum"}

PaymentMethod == {"card", "cash"}

\* The price of one unit of a candy, in cents.
price(candy) ==
  425

\* An Order object: its identity and its readable total_amount.
Order(id, total_amount) ==
  [id |-> id, total_amount |-> total_amount]

\* ShoppingCart(user): a new cart holds no items.
ShoppingCart ==
  [c \in Candy |-> 0]

\* Truth value of a ShoppingCart object.  The cart declares addItem,
\* createOrder and clear only: no length and no truth value of its own, so a
\* cart object, empty or not, is true.
ShoppingCart_bool(items) ==
  TRUE

\* cart.add_item(candy, quantity): the quantities add up per candy.
add_item(items, candy, qty) ==
  [items EXCEPT ![candy] = @ + qty]

\* cart.clear(): the cart holds no items and stays the same object.
clear(items) ==
  [c \in Candy |-> 0]

\* The amount the items of the candies in S come to, in cents.
RECURSIVE total_of(_, _)
total_of(items, S) ==
  IF S = {} THEN 0
  ELSE LET c == CHOOSE x \in S : TRUE
       IN items[c] * price(c) + total_of(items, S \ {c})

\* The amount an order of these items comes to, in cents.
cart_total(items) ==
  total_of(items, DOMAIN items)

\* The number of units of the candies in S.
RECURSIVE units_of(_, _)
units_of(items, S) ==
  IF S = {} THEN 0
  ELSE LET c == CHOOSE x \in S : TRUE
       IN items[c] + units_of(items, S \ {c})

\* The number of units in the cart.
cart_size(items) ==
  units_of(items, DOMAIN items)

\* cart.create_order(payment_method), when it does not fail.
create_order(items, payment_method, id) ==
  Order(id, cart_total(items))

\* What a failing collaborator raises.
CollaboratorError ==
  Raise("RuntimeError", "collaborator failed")

\* not self._cart
not_cart(ref, heap) ==
  ref = NoneRef \/ ~ShoppingCart_bool(heap[ref])

----------------------------------------------------------------------------
(* Inputs *)

\* The shortest new password change_password accepts.
MinPasswordLen == 8

\* Passwords one short of the minimum, of the minimum length and longer,
\* and two that differ in case only.
Passwords ==
  {Rep("a", MinPasswordLen - 1), Rep("a", MinPasswordLen),
   Rep("A", MinPasswordLen), Rep("a", MinPasswordLen + 1)}

Ann ==
  <<"A", "n", "n">>

AnnEmail ==
  <<"a", "@", "b", ".", "c">>

Emails ==
  {AnnEmail, <<"A", "@", "b", ".", "c">>}

Quantities == {-1, 50}

CartQuantities == 1..MaxCartQty

\* An order the object never created, held by the caller.
ForeignOrder ==
  Order(0, 1050)

ReportOrders ==
  {Order(0, 1050), Order(0, 425)}

RECURSIVE SeqsUpTo(_, _)
SeqsUpTo(S, n) ==
  IF n = 0 THEN {<<>>}
  ELSE LET shorter == SeqsUpTo(S, n - 1)
       IN shorter \cup {Append(q, x) : q \in shorter, x \in S}

----------------------------------------------------------------------------
(* Person.__init__, User.__init__, Staff.__init__ *)

Constructed(pid, nm, em, pw, pos) ==
  /\ person_id = pid
  /\ name = nm
  /\ email = em
  /\ _password = pw
  /\ lists = << <<>> >>
  /\ _orders = 1
  /\ carts = <<>>
  /\ _cart = NoneRef
  /\ email_verified = FALSE
  /\ position = pos
  /\ quantity = [c \in Candy |-> 50]
  /\ next_order = 1
  /\ returned = NoneRef
  /\ call = [op |-> "__init__", ret |-> Return(None)]
  /\ add_to_cart_called = FALSE
  /\ checkouts_returned = 0
  /\ accepted_password = pw

\* The passwords the object is constructed with: the constructor takes any
\* string, a short one too.
ConstructorPasswords ==
  Passwords \ {Rep("a", MinPasswordLen + 1)}

Init ==
  \E pw \in ConstructorPasswords :
    Constructed(PyInt(1), PyStr(Ann), AnnEmail, pw, "clerk")

----------------------------------------------------------------------------
(* Person *)

\* f"{self.name} ({self.email})"
display_info ==
  /\ call' = [op |-> "display_info",
              ret |-> Return(format_str(name) \o <<" ", "(">> \o email \o <<")">>)]
  /\ UNCHANGED <<fields, returned, history>>

----------------------------------------------------------------------------
(* User *)

\* login that compares the password alone.
login_ignores_email(em, pw) ==
  /\ call' = [op |-> "login", ret |-> Return(_password = pw)]
  /\ UNCHANGED <<fields, returned, history>>

login(em, pw) ==
  /\ call' = [op |-> "login", ret |-> Return(email = em /\ _password = pw)]
  /\ UNCHANGED <<fields, returned, history>>

\* validate that looks for the "." anywhere in the email.
validate_dot_anywhere(pid, nm, em) ==
  IF ~isinstance_int(pid) \/ pid.val < 0
  THEN Raise("ValueError", "person_id must be a non-negative int")
  ELSE IF ~isinstance_str(nm) \/ strip(nm.val) = <<>>
  THEN Raise("ValueError", "name must be a non-empty string")
  ELSE IF ~contains(em, "@") \/ ~contains(em, ".")
  THEN Raise("ValueError", "email appears invalid")
  ELSE Return(None)

\* The outcome of validate() on the three validated fields.
validate_outcome(pid, nm, em) ==
  IF ~isinstance_int(pid) \/ pid.val < 0
  THEN Raise("ValueError", "person_id must be a non-negative int")
  ELSE IF ~isinstance_str(nm) \/ strip(nm.val) = <<>>
  THEN Raise("ValueError", "name must be a non-empty string")
  ELSE IF ~contains(em, "@") \/ ~contains(last(split(em, "@")), ".")
  THEN Raise("ValueError", "email appears invalid")
  ELSE Return(None)

validate ==
  /\ call' = [op |-> "validate", ret |-> validate_outcome(person_id, name, email)]
  /\ UNCHANGED <<fields, returned, history>>

\* change_password that stores the new password before it checks its length.
change_password_stores_first(stored, old_password, new_password) ==
  IF stored # old_password
  THEN [ret |-> Return(FALSE), password |-> stored]
  ELSE IF Len(new_password) < MinPasswordLen
  THEN [ret |-> Raise("ValueError", "new_password must be at least 8 characters"),
        password |-> new_password]
  ELSE [ret |-> Return(TRUE), password |-> new_password]

\* The outcome of change_password and the password stored after it.
change_password_outcome(stored, old_password, new_password) ==
  IF stored # old_password
  THEN [ret |-> Return(FALSE), password |-> stored]
  ELSE IF Len(new_password) < MinPasswordLen
  THEN [ret |-> Raise("ValueError", "new_password must be at least 8 characters"),
        password |-> stored]
  ELSE [ret |-> Return(TRUE), password |-> new_password]

change_password(old_password, new_password) ==
  LET out == change_password_outcome(_password, old_password, new_password)
  IN /\ _password' = out.password
     /\ call' = [op |-> "change_password", ret |-> out.ret]
     /\ UNCHANGED <<person_id, name, email, _orders, _cart, email_verified,
                    position, lists, carts, quantity, next_order, returned,
                    add_to_cart_called, checkouts_returned>>
     /\ accepted_password' = IF out.ret = Return(TRUE) THEN new_password
                              ELSE accepted_password

\* add_to_cart that makes a new cart whenever the cart holds no items.
cart_for_add_replaces_empty(ref, heap) ==
  IF ref = NoneRef \/ cart_size(heap[ref]) = 0
  THEN [ref |-> Len(heap) + 1, heap |-> Append(heap, ShoppingCart)]
  ELSE [ref |-> ref, heap |-> heap]

\* The cart the user holds once add_to_cart has passed its first statement,
\* and the cart heap then: a cart is made only when `not self._cart`.
cart_for_add(ref, heap) ==
  IF not_cart(ref, heap)
  THEN [ref |-> Len(heap) + 1, heap |-> Append(heap, ShoppingCart)]
  ELSE [ref |-> ref, heap |-> heap]

\* add_item_ok: whether the cart's add_item accepts the item or raises.
add_to_cart(candy, qty, add_item_ok) ==
  LET got == cart_for_add(_cart, carts)
  IN /\ add_item_ok => cart_size(got.heap[got.ref]) + qty <= MaxCartQty
     /\ _cart' = got.ref
     /\ carts' = IF add_item_ok
                 THEN [got.heap EXCEPT ![got.ref] = add_item(@, candy, qty)]
                 ELSE got.heap
     /\ call' = [op |-> "add_to_cart", ret |-> IF add_item_ok THEN Return(None) ELSE CollaboratorError]
     /\ add_to_cart_called' = TRUE
     /\ UNCHANGED <<person_id, name, email, _password, _orders, email_verified,
                    position, lists, quantity, next_order, returned,
                    checkouts_returned, accepted_password>>

\* checkout that takes a cart without items for no cart.
checkout_rejects_empty_cart(ref, heap, orders, payment_method, create_ok, id) ==
  IF ref = NoneRef \/ cart_size(heap[ref]) = 0
  THEN [ret |-> Raise("ValueError", "Cart is empty"),
        orders |-> orders, ref |-> ref, heap |-> heap]
  ELSE IF ~create_ok
  THEN [ret |-> CollaboratorError, orders |-> orders, ref |-> ref, heap |-> heap]
  ELSE LET order == create_order(heap[ref], payment_method, id)
       IN [ret |-> Return(order),
           orders |-> Append(orders, order),
           ref |-> ref,
           heap |-> [heap EXCEPT ![ref] = clear(@)]]

\* checkout that makes the missing cart itself instead of failing.
checkout_makes_cart(ref, heap, orders, payment_method, create_ok, id) ==
  LET got == cart_for_add(ref, heap)
  IN IF ~create_ok
     THEN [ret |-> CollaboratorError, orders |-> orders, ref |-> ref, heap |-> heap]
     ELSE LET order == create_order(got.heap[got.ref], payment_method, id)
          IN [ret |-> Return(order),
              orders |-> Append(orders, order),
              ref |-> got.ref,
              heap |-> [got.heap EXCEPT ![got.ref] = clear(@)]]

\* checkout that stores the new order as the whole history.
checkout_overwrites_orders(ref, heap, orders, payment_method, create_ok, id) ==
  IF not_cart(ref, heap)
  THEN [ret |-> Raise("ValueError", "Cart is empty"),
        orders |-> orders, ref |-> ref, heap |-> heap]
  ELSE IF ~create_ok
  THEN [ret |-> CollaboratorError, orders |-> orders, ref |-> ref, heap |-> heap]
  ELSE LET order == create_order(heap[ref], payment_method, id)
       IN [ret |-> Return(order),
           orders |-> <<order>>,
           ref |-> ref,
           heap |-> [heap EXCEPT ![ref] = clear(@)]]

\* checkout that clears the cart before it asks it for the order.
checkout_clears_first(ref, heap, orders, payment_method, create_ok, id) ==
  IF not_cart(ref, heap)
  THEN [ret |-> Raise("ValueError", "Cart is empty"),
        orders |-> orders, ref |-> ref, heap |-> heap]
  ELSE IF ~create_ok
  THEN [ret |-> CollaboratorError, orders |-> orders, ref |-> ref,
        heap |-> [heap EXCEPT ![ref] = clear(@)]]
  ELSE LET order == create_order(heap[ref], payment_method, id)
       IN [ret |-> Return(order),
           orders |-> Append(orders, order),
           ref |-> ref,
           heap |-> [heap EXCEPT ![ref] = clear(@)]]

\* The effect of checkout on the order list, the cart and the cart heap.
\* create_ok: whether the cart's create_order returns an order or raises.
checkout_outcome(ref, heap, orders, payment_method, create_ok, id) ==
  IF not_cart(ref, heap)
  THEN [ret |-> Raise("ValueError", "Cart is empty"),
        orders |-> orders, ref |-> ref, heap |-> heap]
  ELSE IF ~create_ok
  THEN [ret |-> CollaboratorError, orders |-> orders, ref |-> ref, heap |-> heap]
  ELSE LET order == create_order(heap[ref], payment_method, id)
       IN [ret |-> Return(order),
           orders |-> Append(orders, order),
           ref |-> ref,
           heap |-> [heap EXCEPT ![ref] = clear(@)]]

checkout(payment_method, create_ok) ==
  LET out == checkout_outcome(_cart, carts, lists[_orders], payment_method,
                              create_ok, next_order)
      made == out.ret.kind = "return"
  IN /\ Len(out.orders) <= MaxOrders
     /\ lists' = [lists EXCEPT ![_orders] = out.orders]
     /\ _cart' = out.ref
     /\ carts' = out.heap
     /\ next_order' = IF made THEN next_order + 1 ELSE next_order
     /\ checkouts_returned' = IF made THEN checkouts_returned + 1
                              ELSE checkouts_returned
     /\ call' = [op |-> "checkout", ret |-> out.ret]
     /\ UNCHANGED <<person_id, name, email, _password, _orders, email_verified,
                    position, quantity, returned, add_to_cart_called,
                    accepted_password>>

\* get_orders that returns the order list itself.
get_orders_returns_list(orders_ref, heap) ==
  [ref |-> orders_ref, heap |-> heap]

\* self._orders.copy(): the reference returned and the list heap after the
\* call.  The copy is a new list object; the caller keeps the list it was
\* handed last, so the new list takes the place of the one the caller drops.
get_orders_outcome(orders_ref, heap) ==
  [ref |-> 2, heap |-> <<heap[1], heap[orders_ref]>>]

get_orders ==
  LET out == get_orders_outcome(_orders, lists)
  IN /\ lists' = out.heap
     /\ returned' = out.ref
     /\ call' = [op |-> "get_orders", ret |-> Return(out.ref)]
     /\ UNCHANGED <<person_id, name, email, _password, _orders, _cart,
                    email_verified, position, carts, quantity, next_order,
                    add_to_cart_called, checkouts_returned, accepted_password>>

\* The caller changes a list that get_orders returned to it.
mutated(list, how) ==
  IF how = "append" THEN Append(list, ForeignOrder)
  ELSE IF how = "pop" THEN SubSeq(list, 1, Len(list) - 1)
  ELSE [list EXCEPT ![1] = ForeignOrder]

caller_mutates(ref, how) ==
  /\ ref # NoneRef
  /\ ref = returned
  /\ how = "append" => Len(lists[ref]) <= MaxOrders
  /\ how \in {"pop", "replace"} => lists[ref] # <<>>
  /\ lists' = [lists EXCEPT ![ref] = mutated(@, how)]
  /\ lists' # lists
  /\ call' = [op |-> "caller_mutates", ret |-> Return(None)]
  /\ UNCHANGED <<person_id, name, email, _password, _orders, _cart,
                 email_verified, position, carts, quantity, next_order, returned,
                 add_to_cart_called, checkouts_returned, accepted_password>>

get_cart ==
  /\ call' = [op |-> "get_cart", ret |-> Return(_cart)]
  /\ UNCHANGED <<fields, returned, history>>

----------------------------------------------------------------------------
(* Staff *)

update_inventory(candy, new_quantity) ==
  /\ quantity' = [quantity EXCEPT ![candy] = new_quantity]
  /\ call' = [op |-> "update_inventory", ret |-> Return(None)]
  /\ UNCHANGED <<person_id, name, email, _password, _orders, _cart,
                 email_verified, position, lists, carts, next_order, returned,
                 add_to_cart_called, checkouts_returned, accepted_password>>

\* sum(order.total_amount for order in orders), in cents
RECURSIVE sum_total_amount(_)
sum_total_amount(orders) ==
  IF orders = <<>> THEN 0
  ELSE sum_total_amount(SubSeq(orders, 1, Len(orders) - 1))
       + orders[Len(orders)].total_amount

\* f"{total:.2f}" of an amount of cents
format_2f(cents) ==
  LET a == IF cents < 0 THEN -cents ELSE cents
      frac == a % 100
  IN (IF cents < 0 THEN "-" ELSE "") \o ToString(a \div 100) \o "."
       \o (IF frac < 10 THEN "0" ELSE "") \o ToString(frac)

\* view_sales_report that adds up the staff member's own orders.
sales_report_of_own_orders(own_orders, orders) ==
  "Total sales: $" \o format_2f(sum_total_amount(own_orders))

\* The string view_sales_report returns for a list of orders; own_orders is
\* self._orders, which the method can reach and does not read.
sales_report(own_orders, orders) ==
  "Total sales: $" \o format_2f(sum_total_amount(orders))

view_sales_report(orders) ==
  /\ call' = [op |-> "view_sales_report", ret |-> Return(sales_report(lists[_orders], orders))]
  /\ UNCHANGED <<fields, returned, history>>

----------------------------------------------------------------------------

\* The lists a caller hands to view_sales_report: the lists it builds itself ...
ReportArgs ==
  SeqsUpTo(ReportOrders, MaxReportLen)

\* ... and the lists get_orders handed it (with the order list itself, which
\* only the object holds, to tell the two apart).
HeapArgs ==
  {lists[r] : r \in DOMAIN lists}

Next ==
  \/ display_info
  \/ \E em \in Emails, pw \in Passwords : login(em, pw)
  \/ validate
  \/ \E old \in Passwords, new \in Passwords : change_password(old, new)
  \/ \E c \in Candy, q \in CartQuantities, ok \in BOOLEAN : add_to_cart(c, q, ok)
  \/ \E pm \in PaymentMethod, ok \in BOOLEAN : checkout(pm, ok)
  \/ get_orders
  \/ get_cart
  \/ \E c \in Candy, q \in Quantities : update_inventory(c, q)
  \/ \E os \in HeapArgs : view_sales_report(os)

Spec ==
  Init /\ [][Next]_vars

----------------------------------------------------------------------------
(* The order list, and a caller changing the lists get_orders returns *)

NextOrders ==
  \/ \E c \in Candy, q \in CartQuantities, ok \in BOOLEAN : add_to_cart(c, q, ok)
  \/ \E pm \in PaymentMethod, ok \in BOOLEAN : checkout(pm, ok)
  \/ get_orders
  \/ \E r \in DOMAIN lists, how \in {"append", "pop", "replace"} : caller_mutates(r, how)

SpecOrders ==
  Init /\ [][NextOrders]_vars

----------------------------------------------------------------------------
(* validate on every identity a constructor call can store *)

IdValues ==
  {PyInt(0), PyInt(1), PyInt(-1), PyBool(TRUE), PyFloat, PyNone}

NameChars == {"a", " ", "\t"}

NameValues ==
  {PyStr(s) : s \in SeqsUpTo(NameChars, MaxNameLen)} \cup {PyNone}

EmailChars == {"a", "@", "."}

EmailValues ==
  SeqsUpTo(EmailChars, MaxEmailLen)

InitValidate ==
  \E pid \in IdValues, nm \in NameValues, em \in EmailValues :
    Constructed(pid, nm, em, Rep("a", MinPasswordLen), "clerk")

NextValidate ==
  \/ validate
  \/ display_info
  \/ \E em \in {email, AnnEmail} : login(em, _password)

SpecValidate ==
  InitValidate /\ [][NextValidate]_vars

----------------------------------------------------------------------------
(* view_sales_report on the lists a caller builds *)

NextReport ==
  \/ \E os \in ReportArgs \cup HeapArgs : view_sales_report(os)
  \/ \E c \in Candy, q \in CartQuantities, ok \in BOOLEAN : add_to_cart(c, q, ok)
  \/ \E pm \in PaymentMethod, ok \in BOOLEAN : checkout(pm, ok)
  \/ \E old \in Passwords, new \in Passwords : change_password(old, new)
  \/ get_orders

SpecReport ==
  Init /\ [][NextReport]_vars

----------------------------------------------------------------------------
(* Properties *)

IsPrefix(p, q) ==
  /\ Len(p) <= Len(q)
  /\ \A i \in 1..Len(p) : p[i] = q[i]

EmptyCartError(ret) ==
  /\ ret.kind = "raise"
  /\ ret.exc = "ValueError"
  /\ ret.msg = "Cart is empty"

ValidationError(ret) ==
  /\ ret.kind = "raise"
  /\ ret.exc = "ValueError"
  /\ ret.msg # "Cart is empty"

\* C1: whenever a cart exists, with or without items, checkout does not fail
\* with EmptyCartError; when the cart's create_order returns an order, that
\* order becomes the new last element of the history (one longer, the earlier
\* elements unchanged), the cart is emptied and stays the same allocated cart,
\* and the order is returned.
C1_CheckoutWithCart ==
  [][(call'.op = "checkout" /\ _cart # NoneRef) =>
       /\ ~EmptyCartError(call'.ret)
       /\ call'.ret.kind = "return" =>
            /\ call'.ret.value.total_amount = cart_total(carts[_cart])
            /\ \A i \in 1..Len(lists[_orders]) :
                 lists[_orders][i].id # call'.ret.value.id
            /\ lists'[_orders'] = Append(lists[_orders], call'.ret.value)
            /\ _cart' = _cart
            /\ Len(carts') = Len(carts)
            /\ cart_size(carts'[_cart']) = 0]_vars

\* A second checkout in a row: the first took the items, the second found the
\* cart empty and still returned an order.
C1_Witness ==
  /\ call.op = "checkout"
  /\ call.ret.kind = "return"
  /\ call.ret.value.total_amount = 0
  /\ Len(lists[_orders]) = 2
  /\ lists[_orders][1].total_amount > 0

\* C2: as long as add_to_cart has never been called, checkout fails with
\* EmptyCartError and leaves the order history, the absent cart and the
\* password as they were.
C2_CheckoutWithoutCart ==
  [][(call'.op = "checkout" /\ ~add_to_cart_called) =>
       /\ EmptyCartError(call'.ret)
       /\ _cart = NoneRef
       /\ _cart' = NoneRef
       /\ carts' = <<>>
       /\ lists'[_orders'] = lists[_orders]
       /\ _password' = _password]_vars

\* checkout failed with no cart, after a password change.
C2_Witness ==
  /\ call.op = "checkout"
  /\ EmptyCartError(call.ret)
  /\ ~add_to_cart_called
  /\ _password = Rep("a", MinPasswordLen + 1)

\* C3: change_password with a wrong old password returns False for every new
\* password, a short one too; with the right old password and a new one
\* shorter than 8 characters it raises; the stored password is the same after
\* either as before.
C3_FailedChangeKeepsPassword ==
  [][call'.op = "change_password" =>
       \A old \in Passwords, new \in Passwords :
         change_password(old, new) =>
           /\ old # _password =>
                (call'.ret = Return(FALSE) /\ _password' = _password)
           /\ (old = _password /\ Len(new) < 8) =>
                (ValidationError(call'.ret) /\ _password' = _password)]_vars

\* A change to a short password was refused after an earlier change went
\* through.
C3_Witness ==
  /\ call.op = "change_password"
  /\ ValidationError(call.ret)
  /\ _password = Rep("a", MinPasswordLen + 1)

\* C4: login returns True iff the email is the stored email and the password
\* is the current password, which is the constructor's until a change_password
\* call returns True and then the new password of the last such call; login
\* returns, and changes nothing.
C4_LoginFollowsPassword ==
  [][call'.op = "login" =>
       \A em \in Emails, pw \in Passwords :
         login(em, pw) =>
           /\ call'.ret = Return(em = email /\ pw = accepted_password)
           /\ fields' = fields]_vars

\* login with the new password after a successful change.
C4_Witness ==
  /\ call.op = "login"
  /\ call.ret = Return(TRUE)
  /\ _password = Rep("a", MinPasswordLen + 1)

\* login with the old password after a successful change returns False.
C4_WitnessOld ==
  /\ call.op = "login"
  /\ call.ret = Return(FALSE)
  /\ _password = Rep("a", MinPasswordLen + 1)

\* C5: the order history is empty at construction, every step leaves the
\* previous history a prefix of the new one, only checkout changes it, and its
\* length is the number of checkout calls that returned an order.
C5_OrdersAppendOnly ==
  /\ lists[_orders] = <<>>
  /\ [](Len(lists[_orders]) = checkouts_returned)
  /\ [][/\ IsPrefix(lists[_orders], lists'[_orders'])
        /\ call'.op # "checkout" => lists'[_orders'] = lists[_orders]
        /\ (call'.op = "checkout" /\ call'.ret.kind # "return") =>
             lists'[_orders'] = lists[_orders]]_vars

\* Two orders in the history, and a later call of another operation.
C5_Witness ==
  /\ Len(lists[_orders]) = 2
  /\ call.op = "update_inventory"
  /\ returned # NoneRef
  /\ lists[returned] # lists[_orders]

\* C6: get_orders returns the orders of the history; a caller changing a list
\* it was returned leaves the history, and so what the next get_orders
\* returns, as it was; a checkout does not change a list returned earlier.
C6_GetOrdersCopies ==
  [][/\ call'.op = "get_orders" =>
          /\ lists'[call'.ret.value] = lists[_orders]
          /\ lists'[_orders'] = lists[_orders]
     /\ call'.op = "caller_mutates" => lists'[_orders'] = lists[_orders]
     /\ (call'.op = "checkout" /\ returned # NoneRef) =>
          lists'[returned'] = lists[returned]]_vars

\* The caller has changed the list it was returned, and the history of one
\* order or more is not that list.
C6_Witness ==
  /\ call.op = "caller_mutates"
  /\ Len(lists[_orders]) >= 1
  /\ lists[returned] # lists[_orders]

\* C7: the cart is absent until the first add_to_cart call; only add_to_cart
\* makes it; from then on get_cart returns that one cart, which is never reset
\* to absent and never replaced by another cart.
C7_CartLifecycle ==
  /\ _cart = NoneRef
  /\ [](~add_to_cart_called => _cart = NoneRef)
  /\ [](Len(carts) <= 1)
  /\ [][/\ _cart' # _cart => (call'.op = "add_to_cart" /\ _cart = NoneRef)
        /\ call'.op = "add_to_cart" => _cart' # NoneRef
        /\ call'.op = "get_cart" => call'.ret = Return(_cart)
        /\ \A r \in DOMAIN carts : r \in DOMAIN carts']_vars

\* add_to_cart put an item into the cart that an earlier checkout had
\* emptied.
C7_Witness ==
  /\ call.op = "add_to_cart"
  /\ call.ret.kind = "return"
  /\ Len(lists[_orders]) >= 1
  /\ _cart = 1
  /\ cart_size(carts[_cart]) > 0

\* The identity the data model asks for: an integer id >= 0, a name with a
\* character that is not white space, an email with an "@" and a "." somewhere
\* after its last "@".
ValidIdentity ==
  /\ person_id.type \in {"int", "bool"}
  /\ person_id.val >= 0
  /\ name.type = "str"
  /\ \E i \in 1..Len(name.val) : name.val[i] \notin {" ", "\t"}
  /\ \E i \in 1..Len(email) :
       /\ email[i] = "@"
       /\ \A j \in (i + 1)..Len(email) : email[j] # "@"
       /\ \E k \in (i + 1)..Len(email) : email[k] = "."

\* C8: validate returns for exactly the valid identities and raises
\* ValidationError for every other one (id negative or no integer, name
\* empty or blank, email without "@" or without "." after its last "@"); it
\* changes no state.
C8_ValidateAcceptsValid ==
  /\ [](call.op = "validate" =>
         /\ ValidIdentity => call.ret = Return(None)
         /\ ~ValidIdentity => ValidationError(call.ret))
  /\ [][call'.op = "validate" => (fields' = fields /\ history' = history)]_vars

\* validate accepted an email with a "." before the "@" and one after the last
\* of two "@".
C8_Witness ==
  /\ call.op = "validate"
  /\ call.ret = Return(None)
  /\ person_id = PyInt(0)
  /\ email = <<".", "@", "@", ".">>

\* validate refused an email whose only "." comes before its last "@".
C8_WitnessInvalid ==
  /\ call.op = "validate"
  /\ ValidationError(call.ret)
  /\ person_id = PyInt(0)
  /\ name = PyStr(<<"a">>)
  /\ email = <<"@", ".", "@">>

\* The total of a list of orders, added up from the first order on.
ExpectedTotal(orders) ==
  LET upto[i \in 0..Len(orders)] ==
        IF i = 0 THEN 0 ELSE upto[i - 1] + orders[i].total_amount
  IN upto[Len(orders)]

\* An amount of cents >= 0 as dollars with two decimal places.
Dollars(cents) ==
  ToString(cents \div 100) \o "." \o ToString((cents % 100) \div 10)
    \o ToString(cents % 10)

\* C9: view_sales_report returns "Total sales: $" and the sum of total_amount
\* over the orders it is given, with two decimal places ("Total sales: $0.00"
\* for no orders, "Total sales: $14.75" for 10.5 and 4.25), whatever the
\* staff member's own orders, cart and password; it changes no state and no
\* list.
C9_SalesReportOfArgument ==
  [][call'.op = "view_sales_report" =>
       /\ fields' = fields
       /\ \A os \in ReportArgs \cup HeapArgs :
            view_sales_report(os) =>
              /\ call'.ret = Return("Total sales: $" \o Dollars(ExpectedTotal(os)))
              /\ os = <<>> => call'.ret = Return("Total sales: $0.00")
              /\ os = <<Order(0, 1050), Order(0, 425)>> =>
                   call'.ret = Return("Total sales: $14.75")]_vars

\* The report of 10.5 and 4.25, asked of a staff member whose own orders come
\* to another total.
C9_Witness ==
  /\ call.op = "view_sales_report"
  /\ call.ret = Return("Total sales: $14.75")
  /\ Len(lists[_orders]) = 2
  /\ _cart # NoneRef
  /\ _password = Rep("a", MinPasswordLen + 1)

\* C10: when a cart exists and its create_order fails, checkout raises what
\* create_order raised, appends nothing to the history and leaves the cart
\* the same cart with the same items.
C10_FailedCheckoutKeepsCart ==
  [][(call'.op = "checkout" /\ _cart # NoneRef /\ call'.ret.kind = "raise") =>
       /\ call'.ret = CollaboratorError
       /\ lists' = lists
       /\ _cart' = _cart
       /\ carts' = carts]_vars

\* A checkout failed in create_order and the cart still holds its items.
C10_Witness ==
  /\ call.op = "checkout"
  /\ call.ret = CollaboratorError
  /\ cart_size(carts[_cart]) > 0
  /\ Len(lists[_orders]) < MaxOrders

====
